---- MODULE Spec2Model ----
(***************************************************************************)
(* The speech synchronisation engine of src/src/avatar.py:                *)
(* AvatarHandler.speak_with_tts fans out one synthesis thread per chunk,   *)
(* takes the class-wide semaphore AvatarHandler.lock, then joins the       *)
(* threads one by one and plays each chunk (expression switch, then an     *)
(* audio thread and an animation thread that are both joined).             *)
(* AvatarHandler.stop sets the flag stop_request; LivePNGHandler overrides *)
(* stop.                                                                   *)
(*                                                                         *)
(* Two handler instances exist, one Live2DHandler and one LivePNGHandler.  *)
(* They share `lock`, which is a class attribute of AvatarHandler, and     *)
(* each has its own stop_request.  Speak invocations are numbered in the   *)
(* order in which they are issued; each runs on a thread of its own        *)
(* (window.py, send_message).                                              *)
(***************************************************************************)
EXTENDS Integers, Sequences, FiniteSets, TLC

\* ---------------------------------------------------------------- bounds
MaxCalls == 3      \* speak invocations in all
MaxThreads == 2    \* invocation c starts once invocation c - MaxThreads left
MaxChunks == 2     \* chunks of one text
TrackLen == 2      \* samples of one amplitude track
MaxText == 3       \* tokens of one text handed to the segmenter
MaxAmp == 2        \* largest amplitude of a sample
LiveCalls == 2     \* speak invocations under the fair schedule

Calls == 1..MaxCalls
Handlers == {"Live2D", "LivePNG"}
Tags == {"none", "happy"}

\* The chunk lists extract_expressions hands over: the expression of each
\* chunk ("none" is Python's None), index 0 first.  Only the text before
\* the first marker is without an expression; of the lists of several
\* chunks, those that start with such a text are taken.
ChunkLists ==
    UNION {{cl \in [0..(n - 1) -> Tags] :
              /\ \A k \in 1..(n - 1) : cl[k] # "none"
              /\ n > 1 => cl[0] = "none"}
           : n \in 0..MaxChunks}

\* The amplitude tracks LivePNG.calculate_amplitudes can return.
Tracks == UNION {[1..n -> 0..MaxAmp] : n \in 0..TrackLen}

VARIABLES
    lock,           \* counter of the semaphore AvatarHandler.lock
    stop_request,   \* stop_request of each handler instance
    pc,             \* where each speak_with_tts invocation stands
    handler,        \* the instance (self) an invocation runs on
    chunks,         \* its local `chunks`
    threads,        \* its local `threads`: the state of each synthesis thread
    results,        \* its local `results`: the set of written entries
    i,              \* its local `i` of the playback loop
    anim,           \* its animation thread t1
    audio,          \* its audio thread t2
    amplitudes,     \* the samples t1 has yet to iterate over
    max_amplitude,  \* max_amplitude of t1
    log,            \* history: the sink calls the invocation made, in order
    lastMouth,      \* history: the last set_mouth argument it sent, as <<num, den>>
    stopped,        \* history: stop() was called on its handler while it ran
    text,           \* the segmenter: its argument `text`, a token sequence
    known,          \* the segmenter: the avatar's expressions
    out,            \* the segmenter: the chunks it returned
    returned        \* the segmenter: it has returned

locals == <<pc, handler, chunks, threads, results, i, anim, audio,
            amplitudes, max_amplitude>>
state == <<lock, stop_request, locals>>
history == <<log, lastMouth, stopped>>
segvars == <<text, known, out, returned>>
vars == <<state, history, segvars>>

Len0(f) == Cardinality(DOMAIN f)

RECURSIVE SeqMax(_)
SeqMax(s) == IF Len(s) = 1 THEN s[1]
             ELSE LET m == SeqMax(Tail(s)) IN IF s[1] > m THEN s[1] ELSE m

\* amplitude / max_amplitude (line 294), as the fraction in lowest terms.
GCD(a, b) == CHOOSE g \in 1..b :
                /\ a % g = 0 /\ b % g = 0
                /\ \A h \in 1..b : (a % h = 0 /\ b % h = 0) => h <= g
Ratio(a, m) == <<a \div GCD(a, m), m \div GCD(a, m)>>

\* Between its first line and its last: the invocation has not left yet.
Active(c) == pc[c] \notin {"idle", "crashed", "gone"}

\* Its thread exists.
Running(c) == pc[c] \notin {"idle", "gone"}

\* Entered and not yet out of the chunk loop.
InProgress(c) == pc[c] \in {"acquire", "loop", "playing"}

\* The playback phase: after lock.acquire() (line 83), inside the chunk loop.
InPlayback(c) == pc[c] \in {"loop", "playing"}

\* The handlers right after construction, no invocation made yet.
Constructed ==
    /\ lock = 1
    /\ stop_request = [h \in Handlers |-> FALSE]
    /\ pc = [c \in Calls |-> "idle"]
    /\ handler = [c \in Calls |-> "Live2D"]
    /\ chunks = [c \in Calls |-> <<>>]
    /\ threads = [c \in Calls |-> <<>>]
    /\ results = [c \in Calls |-> {}]
    /\ i = [c \in Calls |-> 0]
    /\ anim = [c \in Calls |-> "off"]
    /\ audio = [c \in Calls |-> "off"]
    /\ amplitudes = [c \in Calls |-> <<>>]
    /\ max_amplitude = [c \in Calls |-> 0]
    /\ log = [c \in Calls |-> <<>>]
    /\ lastMouth = [c \in Calls |-> <<>>]
    /\ stopped = [c \in Calls |-> FALSE]

Init ==
    /\ Constructed
    /\ text = <<>>
    /\ known = {}
    /\ out = <<>>
    /\ returned = FALSE

\* ------------------------------------------------- speak_with_tts, 71-83

\* What lines 71-82 leave in stop_request: they do not assign it.
StartSupersedes(h) == [stop_request EXCEPT ![h] = TRUE]
start_stop_request(h) == stop_request

\* Lines 71-82: segment the text, start one thread per chunk.
Start(c) ==
    /\ pc[c] = "idle"
    /\ \A d \in 1..(c - 1) : pc[d] # "idle"
    /\ \A d \in 1..(c - MaxThreads) : pc[d] = "gone"
    /\ \E h \in Handlers, cl \in ChunkLists :
        /\ handler' = [handler EXCEPT ![c] = h]
        /\ chunks' = [chunks EXCEPT ![c] = cl]
        /\ threads' = [threads EXCEPT ![c] = [k \in DOMAIN cl |-> "run"]]
        /\ stop_request' = start_stop_request(h)
    /\ results' = [results EXCEPT ![c] = {}]
    /\ i' = [i EXCEPT ![c] = 0]
    /\ pc' = [pc EXCEPT ![c] = "acquire"]
    /\ UNCHANGED <<lock, anim, audio, amplitudes, max_amplitude, history>>
    /\ UNCHANGED segvars

\* The entry async_create_file writes (lines 124-127): key `id`, the chunk's
\* expression and the file holding the chunk's audio.
EntryInCompletionOrder(c, id) ==
    [id |-> Cardinality(results[c]), expression |-> chunks[c][id], filename |-> id]
EntryOfNeighbour(c, id) ==
    [id |-> (id + 1) % Len0(chunks[c]), expression |-> chunks[c][id],
     filename |-> id]
Entry(c, id) == [id |-> id, expression |-> chunks[c][id], filename |-> id]

\* results[id] = ... on a dict: an entry under the same key is replaced.
Put(rs, e) == {r \in rs : r.id # e.id} \cup {e}

\* The ways async_create_file can end: at line 129 after writing its entry
\* ("ok"), at line 120 because chunk["text"] is None ("none"), or by an
\* exception of translate or save_audio ("raise").
Ends == {"ok", "none", "raise"}

\* async_create_file (lines 106-127) of thread id: with "ok" it reaches
\* line 124 and writes its entry; otherwise it ends without one.
async_create_file(c, id, how) ==
    /\ Active(c)
    /\ id \in DOMAIN threads[c]
    /\ threads[c][id] = "run"
    /\ threads' = [threads EXCEPT ![c][id] = IF how = "ok" THEN "ok" ELSE "fail"]
    /\ results' = [results EXCEPT ![c] =
                     IF how = "ok" THEN Put(@, Entry(c, id)) ELSE @]
    /\ UNCHANGED <<lock, stop_request, pc, handler, chunks, i, anim,
                   audio, amplitudes, max_amplitude, log, lastMouth, stopped>>
    /\ UNCHANGED segvars

\* Line 83: lock.acquire() blocks while the counter is 0.  With no thread
\* the loop body never runs and line 96 follows.
acquireUnlessEmpty(c) == IF Len0(chunks[c]) = 0 THEN TRUE ELSE lock > 0
acquire(c) == lock > 0

Acquire(c) ==
    /\ pc[c] = "acquire"
    /\ acquire(c)
    /\ lock' = lock - 1
    /\ pc' = [pc EXCEPT ![c] = IF Len0(threads[c]) = 0 THEN "release" ELSE "loop"]
    /\ UNCHANGED <<stop_request, handler, chunks, threads, results, i,
                   anim, audio, amplitudes, max_amplitude, history>>
    /\ UNCHANGED segvars

\* ------------------------------------------------- speak_with_tts, 84-96

\* Line 85: t.join() returns once thread i has ended.
JoinWithoutWaiting(c) == TRUE
JoinDone(c) == threads[c][i[c]] # "run"

\* Line 90: results[i]; a missing key raises KeyError.
HasResult(c) == \E r \in results[c] : r.id = i[c]
ResultAt(c) == CHOOSE r \in results[c] : r.id = i[c]

\* Lines 91-92: the sink call set_expression, made when the entry carries
\* an expression; the log names the chunk by its file and keeps the tag
\* that was passed.
set_expression_always(lg, r) ==
    Append(lg, <<"set_expression", r.filename, r.expression>>)
set_expression(lg, r) ==
    IF r.expression # "none"
    THEN Append(lg, <<"set_expression", r.filename, r.expression>>)
    ELSE lg

\* Lines 90-94: the sink calls of one chunk in the order they are made.
speak_then_set_expression(lg, r) ==
    set_expression(Append(lg, <<"speak", r.filename>>), r)
sink_calls(lg, r) == Append(set_expression(lg, r), <<"speak", r.filename>>)

\* Line 94 into speak (275-284 for Live2D, 379-385 for LivePNG): the
\* animation thread t1 and the audio thread t2 are started on the file of
\* the entry.  Live2D's t1 begins with max(amplitudes) (line 289), which
\* raises ValueError on an empty track and ends the thread.  LivePNG's t1
\* runs model.speak of the livepng library.
speak(c, r) ==
    /\ IF handler[c] = "Live2D"
       THEN \E track \in Tracks :
              IF track = <<>>
              THEN /\ anim' = [anim EXCEPT ![c] = "error"]
                   /\ UNCHANGED <<amplitudes, max_amplitude>>
              ELSE /\ anim' = [anim EXCEPT ![c] = "run"]
                   /\ amplitudes' = [amplitudes EXCEPT ![c] = track]
                   /\ max_amplitude' = [max_amplitude EXCEPT ![c] = SeqMax(track)]
       ELSE /\ anim' = [anim EXCEPT ![c] = "run"]
            /\ UNCHANGED <<amplitudes, max_amplitude>>
    /\ audio' = [audio EXCEPT ![c] = "run"]
    /\ log' = [log EXCEPT ![c] = sink_calls(@, r)]

\* One round of the loop, lines 85-94, up to the start of t1 and t2: join
\* thread i, then either take the stop branch (release the lock, line 87),
\* or look results[i] up.  KeyError leaves the function with the lock held;
\* otherwise the expression is set and the chunk's playback starts.
Iterate(c) ==
    /\ pc[c] = "loop"
    /\ JoinDone(c)
    /\ IF stop_request[handler[c]]
       THEN /\ lock' = lock + 1
            /\ pc' = [pc EXCEPT ![c] = "reset"]
            /\ UNCHANGED <<anim, audio, amplitudes, max_amplitude, log>>
       ELSE /\ UNCHANGED lock
            /\ IF HasResult(c)
               THEN /\ speak(c, ResultAt(c))
                    /\ pc' = [pc EXCEPT ![c] = "playing"]
               ELSE /\ pc' = [pc EXCEPT ![c] = "crashed"]
                    /\ UNCHANGED <<anim, audio, amplitudes, max_amplitude, log>>
    /\ UNCHANGED <<stop_request, handler, chunks, threads, results, i,
                   lastMouth, stopped>>
    /\ UNCHANGED segvars

\* Line 88: self.stop_request = False, then break to line 96.
Reset(c) ==
    /\ pc[c] = "reset"
    /\ stop_request' = [stop_request EXCEPT ![handler[c]] = FALSE]
    /\ pc' = [pc EXCEPT ![c] = "release"]
    /\ UNCHANGED <<lock, handler, chunks, threads, results, i, anim,
                   audio, amplitudes, max_amplitude, history>>
    /\ UNCHANGED segvars

\* One round of the loop of Live2DHandler._start_animation (290-295): on
\* stop_request, set_mouth(0) and return; otherwise
\* set_mouth(amplitude/max_amplitude), which raises ZeroDivisionError for a
\* silent track.  The thread ends after the last sample.
StartAnimation(c) ==
    /\ pc[c] = "playing"
    /\ handler[c] = "Live2D"
    /\ anim[c] = "run"
    /\ IF stop_request[handler[c]]
       THEN /\ lastMouth' = [lastMouth EXCEPT ![c] = <<0, 1>>]
            /\ anim' = [anim EXCEPT ![c] = "done"]
            /\ amplitudes' = [amplitudes EXCEPT ![c] = <<>>]
            /\ max_amplitude' = [max_amplitude EXCEPT ![c] = 0]
       ELSE IF max_amplitude[c] = 0
       THEN /\ anim' = [anim EXCEPT ![c] = "error"]
            /\ amplitudes' = [amplitudes EXCEPT ![c] = <<>>]
            /\ UNCHANGED <<lastMouth, max_amplitude>>
       ELSE /\ lastMouth' = [lastMouth EXCEPT ![c] =
                               Ratio(Head(amplitudes[c]), max_amplitude[c])]
            /\ amplitudes' = [amplitudes EXCEPT ![c] = Tail(@)]
            /\ IF Len(amplitudes[c]) = 1
               THEN /\ anim' = [anim EXCEPT ![c] = "done"]
                    /\ max_amplitude' = [max_amplitude EXCEPT ![c] = 0]
               ELSE UNCHANGED <<anim, max_amplitude>>
    /\ UNCHANGED <<lock, stop_request, pc, handler, chunks, threads, results,
                   i, audio, log, stopped>>
    /\ UNCHANGED segvars

\* LivePNG's t1 (model.speak, line 382) ends when the library ends it.
ModelSpeakEnd(c) ==
    /\ pc[c] = "playing"
    /\ handler[c] = "LivePNG"
    /\ anim[c] = "run"
    /\ anim' = [anim EXCEPT ![c] = "done"]
    /\ UNCHANGED <<lock, stop_request, pc, handler, chunks, threads, results,
                   i, audio, amplitudes, max_amplitude, history>>
    /\ UNCHANGED segvars

\* t2, tts.playsound (lines 282, 383), returns when the audio has played or
\* was stopped (ok), or raises, which ends the thread t2 and nothing else.
PlaysoundEnd(c, ok) ==
    /\ pc[c] = "playing"
    /\ audio[c] = "run"
    /\ audio' = [audio EXCEPT ![c] = IF ok THEN "done" ELSE "error"]
    /\ UNCHANGED <<lock, stop_request, pc, handler, chunks, threads, results,
                   i, anim, amplitudes, max_amplitude, history>>
    /\ UNCHANGED segvars

\* Lines 285-286: t1.join() and t2.join() have both returned.
joined_animation(c) == anim[c] \in {"done", "error"}
joined(c) == anim[c] \in {"done", "error"} /\ audio[c] \in {"done", "error"}

\* Lines 285-286 and 95: both threads joined, i += 1, next thread or line 96.
JoinBoth(c) ==
    /\ pc[c] = "playing"
    /\ joined(c)
    /\ anim' = [anim EXCEPT ![c] = "off"]
    /\ audio' = [audio EXCEPT ![c] = "off"]
    /\ i' = [i EXCEPT ![c] = @ + 1]
    /\ pc' = [pc EXCEPT ![c] =
                IF i[c] + 1 = Len0(threads[c]) THEN "release" ELSE "loop"]
    /\ UNCHANGED <<lock, stop_request, handler, chunks, threads, results,
                   amplitudes, max_amplitude, history>>
    /\ UNCHANGED segvars

\* What an invocation leaves behind when its frame is gone.
Gone(c) ==
    /\ pc' = [pc EXCEPT ![c] = "gone"]
    /\ handler' = [handler EXCEPT ![c] = "Live2D"]
    /\ chunks' = [chunks EXCEPT ![c] = <<>>]
    /\ threads' = [threads EXCEPT ![c] = <<>>]
    /\ results' = [results EXCEPT ![c] = {}]
    /\ i' = [i EXCEPT ![c] = 0]
    /\ log' = [log EXCEPT ![c] = <<>>]
    /\ lastMouth' = [lastMouth EXCEPT ![c] = <<>>]
    /\ stopped' = [stopped EXCEPT ![c] = FALSE]

\* Line 96: lock.release(), reached after the loop and after break alike;
\* the function returns.
Release(c) ==
    /\ pc[c] = "release"
    /\ lock' = lock + 1
    /\ Gone(c)
    /\ UNCHANGED <<stop_request, anim, audio, amplitudes, max_amplitude>>
    /\ UNCHANGED segvars

\* KeyError at line 90 has unwound the function: line 96 is not reached.
Raise(c) ==
    /\ pc[c] = "crashed"
    /\ Gone(c)
    /\ UNCHANGED <<lock, stop_request, anim, audio, amplitudes, max_amplitude>>
    /\ UNCHANGED segvars

\* ------------------------------------------------------------------ stop

\* What stop() leaves in stop_request: AvatarHandler.stop (145-147) sets
\* the flag; LivePNGHandler.stop (389-390) only calls model.stop().
stopToggles(h) == [stop_request EXCEPT ![h] = ~@]
stop(h) == IF h = "Live2D"
           THEN [stop_request EXCEPT ![h] = TRUE]
           ELSE stop_request

StopUnderGate(h) ==
    /\ lock > 0
    /\ UNCHANGED <<lock, locals, log, lastMouth>>
    /\ stop_request' = stop(h)
    /\ stopped' = [c \in Calls |->
                      stopped[c] \/ (InProgress(c) /\ handler[c] = h)]
    /\ UNCHANGED segvars

\* stopped[c] records that stop() was called on the handler of invocation c
\* between its entry and the end of its loop.
Stop(h) ==
    /\ UNCHANGED <<lock, locals, log, lastMouth>>
    /\ stop_request' = stop(h)
    /\ stopped' = [c \in Calls |->
                      stopped[c] \/ (InProgress(c) /\ handler[c] = h)]
    /\ UNCHANGED segvars

Next ==
    \/ \E c \in Calls : Start(c)
    \/ \E c \in Calls : \E id \in 0..(MaxChunks - 1), how \in Ends :
           async_create_file(c, id, how)
    \/ \E c \in Calls : Acquire(c)
    \/ \E c \in Calls : Iterate(c)
    \/ \E c \in Calls : Reset(c)
    \/ \E c \in Calls : StartAnimation(c)
    \/ \E c \in Calls : ModelSpeakEnd(c)
    \/ \E c \in Calls : \E ok \in BOOLEAN : PlaysoundEnd(c, ok)
    \/ \E c \in Calls : JoinBoth(c)
    \/ \E c \in Calls : Release(c)
    \/ \E c \in Calls : Raise(c)
    \/ \E h \in Handlers : Stop(h)

Spec == Init /\ [][Next]_vars

\* ------------------------------------------------- the threads, scheduled
\* Every invocation of speak_with_tts runs on a thread of its own
\* (window.py lines 1323-1324), and so does every async_create_file
\* (lines 76-80), _start_animation and playsound (lines 281-284).  The
\* interpreter gives every runnable thread its turn, which is weak fairness
\* of each thread's next step; the arrival of calls of speak_with_tts and
\* of stop is the user's and is not fair.

\* The next step of the thread of invocation c.
Coordinator(c) ==
    Acquire(c) \/ Iterate(c) \/ Reset(c) \/ JoinBoth(c) \/ Release(c) \/ Raise(c)

\* The next step of the animation thread t1 of invocation c.
Animation(c) == StartAnimation(c) \/ ModelSpeakEnd(c)

\* The next step of the audio thread t2 of invocation c.
Playsound(c) == \E ok \in BOOLEAN : PlaysoundEnd(c, ok)

\* The next step of synthesis thread id of invocation c.
Synthesis(c, id) == \E how \in Ends : async_create_file(c, id, how)

\* The user speaks LiveCalls times.
LiveStart(c) == c <= LiveCalls /\ Start(c)

LiveNext ==
    \/ \E c \in Calls : LiveStart(c)
    \/ \E c \in Calls : \E id \in 0..(MaxChunks - 1) : Synthesis(c, id)
    \/ \E c \in Calls : Coordinator(c)
    \/ \E c \in Calls : Animation(c)
    \/ \E c \in Calls : Playsound(c)
    \/ \E h \in Handlers : Stop(h)

Fairness ==
    \A c \in Calls :
        /\ WF_vars(Coordinator(c))
        /\ WF_vars(Animation(c))
        /\ WF_vars(Playsound(c))
        /\ \A id \in 0..(MaxChunks - 1) : WF_vars(Synthesis(c, id))

LiveSpec == Init /\ [][LiveNext]_vars /\ Fairness

\* ------------------------------------------- extract_expressions (line 72)
\* The segmenter called at line 72.  A text is a sequence of tokens: a
\* token is a character or a marker, and a marker is written as its tag.

Chars == {"a", "b"}
TagNames == {"happy", "sad"}
Tokens == Chars \cup TagNames
Texts == UNION {[1..n -> Tokens] : n \in 0..MaxText}

\* A marker is recognized only if its tag is one of the known expressions.
AnyMarker(t, exprs) == t \in TagNames
Recognized(t, exprs) == t \in exprs

\* Any other token, an unrecognized marker included, is literal text of the
\* current chunk.
LiteralUnlessMarker(cur, t) ==
    IF t \in TagNames THEN cur ELSE [cur EXCEPT !.text = Append(@, t)]
Literal(cur, t) == [cur EXCEPT !.text = Append(@, t)]

\* The current chunk ends; a chunk without text is dropped.
Flush(chunkList, cur) ==
    IF cur.text = <<>> THEN chunkList ELSE Append(chunkList, cur)

\* Left to right: a recognized marker ends the current chunk and starts one
\* that carries its tag.
RECURSIVE Scan(_, _, _, _)
Scan(rest, exprs, cur, chunkList) ==
    IF rest = <<>>
    THEN Flush(chunkList, cur)
    ELSE IF Recognized(Head(rest), exprs)
    THEN Scan(Tail(rest), exprs, [text |-> <<>>, expression |-> Head(rest)],
              Flush(chunkList, cur))
    ELSE Scan(Tail(rest), exprs, Literal(cur, Head(rest)), chunkList)

\* The text before the first marker carries no expression.
extract_expressions(txt, exprs) ==
    Scan(txt, exprs, [text |-> <<>>, expression |-> "none"], <<>>)

\* One call of the segmenter, on any text and any set of known expressions.
SegInit ==
    /\ Constructed
    /\ text \in Texts
    /\ known \in SUBSET TagNames
    /\ out = <<>>
    /\ returned = FALSE

Segment ==
    /\ ~returned
    /\ out' = extract_expressions(text, known)
    /\ returned' = TRUE
    /\ UNCHANGED <<text, known, state, history>>

SegNext == Segment

SegSpec == SegInit /\ [][SegNext]_vars


\* ================================================================ claims

IsSpeak(e) == e[1] = "speak"

\* The files handed to speak() by invocation c so far, in call order.
Played(c) == SelectSeq(log[c], IsSpeak)

Failed(c) == {k \in DOMAIN threads[c] : threads[c][k] = "fail"}

\* C1: within one invocation the avatar-sink and audio-sink calls are made in
\* strictly increasing chunk order, whatever order the synthesis threads end
\* in: a later call never carries a smaller index, an index is repeated only
\* by the set_expression immediately before its speak, and the animation and
\* audio that are running belong to the chunk handed to speak() last, which
\* is chunk i.
C1_PlayedInOrder ==
    \A c \in Calls :
        /\ \A a, b \in DOMAIN log[c] :
               a < b => /\ log[c][a][2] <= log[c][b][2]
                        /\ log[c][a][2] = log[c][b][2] =>
                               /\ b = a + 1
                               /\ log[c][a][1] = "set_expression"
                               /\ log[c][b][1] = "speak"
        /\ (anim[c] = "run" \/ audio[c] = "run") =>
               /\ pc[c] = "playing"
               /\ log[c] # <<>>
               /\ log[c][Len(log[c])] = <<"speak", i[c]>>

\* C1 witness: both chunks of a two-chunk invocation were played, 0 then 1,
\* although thread 1 may have ended first.
C1_BothPlayed ==
    \E c \in Calls :
        /\ Len0(chunks[c]) = 2
        /\ Played(c) = <<(<<"speak", 0>>), (<<"speak", 1>>)>>

\* C2: at most one invocation is in its playback phase at any time.
C2_OneInPlayback == Cardinality({c \in Calls : InPlayback(c)}) <= 1

\* C3: once stop() was called during an invocation and the invocation has
\* left its loop, the last mouth value the avatar received is 0.
C3_MouthClosedAfterStop ==
    \A c \in Calls :
        (pc[c] = "release" /\ stopped[c] /\ lastMouth[c] # <<>>) =>
            lastMouth[c][1] = 0

\* C4: a stop() issued while nothing is playing has no effect: an invocation
\* that runs alone and during which stop() is never called plays every chunk.
C4_IdleStopNoEffect ==
    \A c \in Calls :
        (/\ pc[c] = "release"
         /\ ~stopped[c]
         /\ \A d \in Calls \ {c} : pc[d] = "idle") =>
            Len(Played(c)) = Len0(chunks[c])

\* C5: after stop() was called during an invocation, that invocation starts
\* playing no further chunk.
C5_NoChunkAfterStop ==
    [][\A c \in Calls : (stopped[c] /\ pc[c] = "loop") => pc'[c] # "playing"]_vars

\* C6: an invocation in which synthesis fails for exactly one chunk does not
\* abort: the failed chunk is skipped.
C6_FailedChunkSkipped ==
    \A c \in Calls : Cardinality(Failed(c)) = 1 => pc[c] # "crashed"

\* A state that stop() maps to itself.
StopDone(h) == stop_request = stop(h)

\* C7: stop() is idempotent.  Every stop() ends in a state that a further
\* stop() leaves as it is, in every program variable; stop() itself makes no
\* call on the avatar; and the animation thread that sees the flag closes
\* the mouth once and ends.
C7_StopIdempotent ==
    [][/\ \A h \in Handlers :
              Stop(h) => /\ StopDone(h)'
                         /\ StopDone(h) => UNCHANGED state
                         /\ UNCHANGED <<log, lastMouth>>
       /\ \A c \in Calls :
              (anim[c] = "run" /\ stop_request[handler[c]] /\ StartAnimation(c)) =>
                  /\ lastMouth'[c] = <<0, 1>>
                  /\ anim'[c] = "done"]_vars

\* C7 witness: stop() was called while a Live2D chunk is being animated, and
\* can be called again.
C7_StoppedWhilePlaying ==
    \E c \in Calls :
        /\ pc[c] = "playing"
        /\ handler[c] = "Live2D"
        /\ anim[c] = "run"
        /\ stopped[c]
        /\ stop_request["Live2D"]

C10_EmptySpeakNeverWaits ==
    \A c \in Calls :
        (pc[c] = "acquire" /\ Len0(chunks[c]) = 0) => ENABLED Acquire(c)

\* C10 amended: a speak call with zero chunks starts no thread and makes no
\* avatar or audio call, but it passes the gate like any other: while the
\* counter is 0 it waits at line 83.
C10_EmptySpeakTakesGate ==
    \A c \in Calls :
        (Running(c) /\ Len0(chunks[c]) = 0) =>
            /\ Len0(threads[c]) = 0
            /\ log[c] = <<>>
            /\ lastMouth[c] = <<>>
            /\ anim[c] = "off"
            /\ audio[c] = "off"
            /\ pc[c] \in {"acquire", "release"}
            /\ (pc[c] = "acquire" /\ lock = 0) => ~ENABLED Acquire(c)

\* C10 witness: a zero-chunk invocation is held at the gate by one that is
\* playing.
C10_EmptySpeakHeld ==
    \E c, d \in Calls :
        /\ pc[c] = "acquire"
        /\ Len0(chunks[c]) = 0
        /\ lock = 0
        /\ InPlayback(d)


\* C11: a stop() cancels only the invocation it was issued against: when an
\* invocation during which stop() was called returns and nothing else runs
\* on its handler, it leaves no stop request behind for a later invocation.
C11_StopDiesWithItsCall ==
    [][\A c \in Calls :
           (/\ stopped[c]
            /\ pc[c] = "release"
            /\ pc'[c] = "gone"
            /\ \A d \in Calls \ {c} : ~(Running(d) /\ handler[d] = handler[c])) =>
               ~stop_request'[handler[c]]]_vars

\* C12: the animation of a silent track (all samples 0, maximum 0) passes 0
\* to set_mouth for every sample and raises no error.
C12_SilentTrackIsZero ==
    [][\A c \in Calls :
           (/\ anim[c] = "run"
            /\ handler[c] = "Live2D"
            /\ amplitudes[c] # <<>>
            /\ max_amplitude[c] = 0
            /\ ~stop_request[handler[c]]
            /\ StartAnimation(c)) =>
               /\ anim'[c] # "error"
               /\ lastMouth'[c] = <<0, 1>>]_vars

\* C13: stop() never blocks and changes nothing but the stop flag: in every
\* reachable state, whoever holds or waits on the gate, stop() can be taken
\* on either handler, and no stop() step changes the gate, any local of an
\* invocation (results and i among them) or makes a call on the avatar.
C13_StopNeverBlocks ==
    \A h \in Handlers :
        /\ ENABLED Stop(h)
        /\ ~ENABLED (Stop(h) /\ ~UNCHANGED <<lock, locals, log, lastMouth>>)

\* C13 witness: stop() has been taken while one invocation holds the gate in
\* playback and another waits on it.
C13_StoppedUnderHeldGate ==
    \E c, d \in Calls :
        /\ lock = 0
        /\ pc[c] = "playing"
        /\ pc[d] = "acquire"
        /\ stopped[c]
        /\ stopped[d]

\* C17: a chunk whose amplitude track is empty is played without an error:
\* the animation thread of a chunk never dies before its first sample.
C17_EmptyTrackNoError ==
    [][\A c \in Calls : ~(anim[c] = "off" /\ anim'[c] = "error")]_vars

\* C18: the gate is binary: the semaphore never holds more than one permit.
C18_BinaryGate == lock \in {0, 1}

\* C19: the gate is never leaked: whenever no invocation is between its
\* lock.acquire() and its return, a permit is available.
C19_GateNotLeaked ==
    (\A c \in Calls : pc[c] \in {"idle", "acquire", "gone"}) => lock >= 1

\* C20: one stop() cancels at most one invocation: while an invocation that
\* took the cancel branch has not yet reset the stop flag, no other
\* invocation on its handler takes the cancel branch.
C20_OneStopOneCancel ==
    [][\A a, b \in Calls :
           (/\ a # b
            /\ pc[a] = "reset"
            /\ handler[a] = handler[b]
            /\ pc[b] = "loop") => pc'[b] # "reset"]_vars


\* C16: once the audio thread of a chunk has failed, the animation of that
\* chunk is aborted: its next step sends set_mouth(0) and ends the thread,
\* and no further sample of the track is sent.
C16_AudioFailureAbortsAnimation ==
    [][\A c \in Calls :
           (/\ audio[c] = "error"
            /\ anim[c] = "run"
            /\ amplitudes'[c] # amplitudes[c]) =>
               /\ lastMouth'[c] = <<0, 1>>
               /\ anim'[c] = "done"]_vars


RECURSIVE Concat(_)
Concat(chunkList) ==
    IF chunkList = <<>> THEN <<>>
    ELSE Head(chunkList).text \o Concat(Tail(chunkList))

IsKnownMarker(t) == t \in known
IsUnknownMarker(t) == t \in TagNames \ known
IsNoKnownMarker(t) == t \notin known

\* C14: segmentation never splits on an unknown tag.  Every chunk carries
\* no expression or a known one, there are at most as many chunks as known
\* markers plus one, and the markers with an unknown tag are all found, in
\* order, as literal tokens of the chunk texts.
C14_UnknownTagsIgnored ==
    returned =>
        /\ \A k \in DOMAIN out : out[k].expression \in known \cup {"none"}
        /\ Len(out) <= Len(SelectSeq(text, IsKnownMarker)) + 1
        /\ SelectSeq(Concat(out), IsUnknownMarker) =
               SelectSeq(text, IsUnknownMarker)

\* C14 witness: a text with an unknown marker between two characters came
\* back as one chunk.
C14_UnknownMarkerKept ==
    /\ returned
    /\ text = <<"a", "sad", "b">>
    /\ known = {"happy"}
    /\ Len(out) = 1

\* C15: round trip.  The chunk texts, concatenated in order, are the input
\* text with its recognized markers removed.
C15_RoundTrip ==
    returned => Concat(out) = SelectSeq(text, IsNoKnownMarker)

\* C15 witness: a text with a known marker between two characters came back
\* as two chunks.
C15_SplitAtKnownMarker ==
    /\ returned
    /\ text = <<"a", "happy", "b">>
    /\ known = {"happy"}
    /\ Len(out) = 2

\* ------------------------------------------------------------------ C21
\* C21: when the threads are scheduled fairly, so that every synthesis
\* task and every playback ends, every invocation of speak_with_tts that
\* was started returns, and every invocation that waits for the gate gets
\* it, whatever calls of speak_with_tts and stop came before.
C21_EverySpeakReturns ==
    \A c \in Calls :
        /\ (pc[c] # "idle") ~> (pc[c] = "gone")
        /\ (pc[c] = "acquire") ~> (pc[c] # "acquire")

\* ------------------------------------------------------------------ C22
\* C22: within a played chunk the expression is switched before the chunk's
\* animation and audio start: the set_expression call of a tagged chunk is
\* the sink call made just before the chunk's speak call, and while the
\* chunk's animation or audio thread exists, that speak call is the last
\* call the invocation has made.
C22_ExpressionBeforePlayback ==
    \A c \in Calls :
        /\ \A k \in DOMAIN log[c] :
               (log[c][k][1] = "speak" /\ chunks[c][log[c][k][2]] # "none") =>
                   /\ k > 1
                   /\ log[c][k - 1] = <<"set_expression", log[c][k][2],
                                        chunks[c][log[c][k][2]]>>
        /\ (anim[c] # "off" \/ audio[c] # "off") =>
               /\ log[c] # <<>>
               /\ log[c][Len(log[c])] = <<"speak", i[c]>>

\* C22 (witness): the audio of a tagged chunk is running.
C22_TaggedChunkPlaying ==
    \E c \in Calls :
        /\ pc[c] = "playing"
        /\ audio[c] = "run"
        /\ chunks[c][i[c]] = "happy"

\* ------------------------------------------------------------------ C23
\* C23: a chunk in playback has exactly its two threads, animation and
\* audio, and the invocation goes on to the next round of its loop only
\* when both have ended; outside the playback of a chunk neither exists.
C23_BothJoinedBeforeNextChunk ==
    [][\A c \in Calls :
           /\ (pc[c] = "playing") <=> (anim[c] # "off")
           /\ (pc[c] = "playing") <=> (audio[c] # "off")
           /\ (pc[c] = "playing" /\ pc'[c] # "playing") =>
                  /\ anim[c] \in {"done", "error"}
                  /\ audio[c] \in {"done", "error"}]_vars

\* C23 (witness): the second chunk is in playback with both of its threads
\* running, after both threads of the first were joined.
C23_SecondChunkBothRunning ==
    \E c \in Calls :
        /\ pc[c] = "playing"
        /\ i[c] = 1
        /\ anim[c] = "run"
        /\ audio[c] = "run"

\* ------------------------------------------------------------------ C24
\* C24: every round of the animation loop handles exactly the next sample
\* of the track: when the stop flag is set it passes 0 to set_mouth and
\* ends; otherwise it passes the sample to set_mouth without error, and the
\* thread ends exactly after the last sample, so that without stop() there
\* are as many set_mouth calls as samples.
C24_OneCallPerSample ==
    [][\A c \in Calls :
           (anim[c] = "run" /\ handler[c] = "Live2D" /\ StartAnimation(c)) =>
               IF stop_request[handler[c]]
               THEN lastMouth'[c] = <<0, 1>> /\ anim'[c] = "done"
               ELSE /\ anim'[c] # "error"
                    /\ amplitudes'[c] = Tail(amplitudes[c])
                    /\ (anim'[c] = "done") <=> (Len(amplitudes[c]) = 1)]_vars

\* ------------------------------------------------------------------ C25
\* C25: when an invocation has played all its chunks and stop() was never
\* called during it, the last value it passed to set_mouth is 0.
C25_MouthClosedAtEnd ==
    \A c \in Calls :
        (/\ pc[c] = "release"
         /\ ~stopped[c]
         /\ Len(Played(c)) = Len0(chunks[c])
         /\ lastMouth[c] # <<>>) =>
            lastMouth[c][1] = 0

\* ------------------------------------------------------------------ C26
\* C26: an invocation during which stop() was called before its first
\* chunk started playback makes no sink call at all.
C26_StoppedBeforePlaybackIsSilent ==
    [][\A c \in Calls :
           (stopped[c] /\ log[c] = <<>> /\ pc[c] \in {"acquire", "loop"}) =>
               log'[c] = <<>>]_vars

\* ------------------------------------------------------------------ C27
\* C27: for every played chunk, set_expression was called exactly once, with
\* the chunk's tag, when the chunk has a tag, and not at all when it has
\* none; it is never called for a chunk that was not played.
C27_OneExpressionPerTaggedChunk ==
    \A c \in Calls : \A f \in 0..(MaxChunks - 1) :
        LET sets == {k \in DOMAIN log[c] :
                       log[c][k][1] = "set_expression" /\ log[c][k][2] = f}
            plays == {k \in DOMAIN log[c] :
                        log[c][k][1] = "speak" /\ log[c][k][2] = f}
        IN  IF plays = {}
            THEN sets = {}
            ELSE IF chunks[c][f] = "none"
            THEN sets = {}
            ELSE /\ Cardinality(sets) = 1
                 /\ \A k \in sets : log[c][k][3] = chunks[c][f]

\* C27 (witness): an untagged and a tagged chunk were both played, with the
\* one set_expression call of the tagged chunk.
C27_TaggedAndUntaggedPlayed ==
    \E c \in Calls :
        /\ Len(Played(c)) = 2
        /\ Len(log[c]) = 3
        /\ chunks[c][0] = "none"

\* ------------------------------------------------------------------ C28
\* C28 (as claimed): when an invocation leaves its loop, every entry of its
\* results has been read, that is, played.
C28_EveryResultRead ==
    \A c \in Calls :
        pc[c] = "release" =>
            \A r \in results[c] :
                \E a \in DOMAIN Played(c) : Played(c)[a][2] = r.filename

\* C28 (amended): every entry of results was written by the synthesis
\* thread of its own index, which ended normally, and there is one entry
\* per such thread; the loop reads an entry at most once, and reads only
\* entries that were written.
C28_WrittenOnceReadAtMostOnce ==
    \A c \in Calls :
        /\ \A r \in results[c] :
               /\ r.id \in DOMAIN threads[c]
               /\ threads[c][r.id] = "ok"
               /\ r.filename = r.id
               /\ r.expression = chunks[c][r.id]
        /\ \A k \in DOMAIN threads[c] :
               threads[c][k] = "ok" =>
                   Cardinality({r \in results[c] : r.id = k}) = 1
        /\ \A a, b \in DOMAIN Played(c) :
               a # b => Played(c)[a][2] # Played(c)[b][2]
        /\ \A a \in DOMAIN Played(c) :
               \E r \in results[c] : r.id = Played(c)[a][2]

\* C28 (witness): an invocation was cancelled with a written entry unread.
C28_CancelledWithUnreadResult ==
    \E c \in Calls :
        /\ pc[c] = "release"
        /\ \E r \in results[c] :
               \A a \in DOMAIN Played(c) : Played(c)[a][2] # r.id

\* ------------------------------------------------------------------ C29
\* C29: a synthesis thread that ends without an exception, also on a chunk
\* whose text is None, has written its entry, so that the read of
\* results[i] after the join of thread i finds it.
C29_ReadAfterWrite ==
    [][\A c \in Calls : \A id \in 0..(MaxChunks - 1) :
           async_create_file(c, id, "none") =>
               \E r \in results'[c] : r.id = id]_vars

\* ------------------------------------------------------------------ C30
\* C30: the gate belongs to one handler: an invocation that waits for the
\* gate while no other invocation of its own handler is running, and an
\* invocation of the other handler is in its playback phase, can take it.
C30_GatePerHandler ==
    \A c \in Calls :
        (/\ pc[c] = "acquire"
         /\ \A d \in Calls \ {c} : Running(d) => handler[d] # handler[c]
         /\ \E d \in Calls : InPlayback(d) /\ handler[d] # handler[c]) =>
            acquire(c)

====
